---- MODULE Spec2Model ----
(***************************************************************************)
(* Model of the ingestion pipeline of document-rag: the POST /ingest       *)
(* handler (src/index.js), ingestDocumentFromBuffer and ingestWebsite      *)
(* (src/ingest.js), and the website utilities (src/utils/website.js):      *)
(* fetchSitemapUrls, downloadPagesSequentially, crawlWebsite,              *)
(* collectWebsitePages, extractLinks, extractUrlsFromSitemap.              *)
(*                                                                         *)
(* A URL is a record [scheme, host, path, frag]; two URL strings are equal *)
(* exactly when their records are.  An html page is a record [hrefs,       *)
(* bodyLen]: the href attributes of its anchors in document order and the  *)
(* length of its whitespace-normalised body text.  One step of the model   *)
(* is the code of an async function from an await, or from the head of one *)
(* of its loops, to the next await or loop head.                           *)
(***************************************************************************)
EXTENDS Integers, Sequences, FiniteSets, TLC

(* ------------------------------ bounds --------------------------------- *)
MaxLimit == 2          \* page limits 0..MaxLimit of a request (MAX_WEBSITE_PAGES is read from the environment)
MaxCrawlLimit == 3     \* page limits 0..MaxCrawlLimit of a crawl taken alone
MaxShort == 0          \* every html page of at most MaxShort anchors is served
MaxHrefs == 5          \* anchors of the link-rich html pages
MaxLocs == 2           \* <loc> entries of a sitemap at a candidate path
MaxNestedLocs == 1     \* <loc> entries of a nested sitemap
MaxNsLen == 2          \* every namespace and organisation string of at most MaxNsLen characters is tried
MaxTwoLimit == 2       \* page limits 0..MaxTwoLimit of two crawls run side by side

(* ------------------------- program constants --------------------------- *)
MIN_WEBSITE_LENGTH == 200
MAX_LINKS_PER_PAGE == 4     \* Number(process.env.MAX_LINKS_PER_PAGE || 50), run with the variable set to 4
MAX_NESTED_SITEMAPS == 10
chunkSize == 1000
chunkOverlap == 200

(* ------------------------------ helpers -------------------------------- *)
Min(a, b) == IF a <= b THEN a ELSE b

Take(s, n) == SubSeq(s, 1, Min(Len(s), n))       \* Array.prototype.slice(0, n), n >= 0

Includes(s, x) == \E i \in 1..Len(s) : s[i] = x  \* Array.prototype.includes

RECURSIVE SeqsUpTo(_, _)
SeqsUpTo(S, n) ==
  IF n = 0 THEN {<<>>}
  ELSE LET shorter == SeqsUpTo(S, n - 1)
       IN shorter \cup {Append(s, x) : s \in {t \in shorter : Len(t) = n - 1}, x \in S}

RECURSIVE SetOrder(_)
\* Array.from(new Set(s)): the first occurrence of every element, in order
SetOrder(s) ==
  IF Len(s) = 0 THEN <<>>
  ELSE LET front == SetOrder(SubSeq(s, 1, Len(s) - 1))
       IN IF Includes(front, s[Len(s)]) THEN front ELSE Append(front, s[Len(s)])

(* -------------------------------- URLs --------------------------------- *)
Url(sc, h, p, f) == [scheme |-> sc, host |-> h, path |-> p, frag |-> f]

NoUrl == Url("", "", 0, FALSE)          \* null / the empty string
BadUrl == Url("bad", "", 0, FALSE)      \* a string the URL constructor rejects

IsHttp(u) == u.scheme \in {"http", "https"}

\* the raw `url` / `website` body field of a request
RawUrls ==
  { NoUrl, BadUrl,
    Url("", "a", 1, FALSE),              \* "a/1": no scheme given
    Url("https", "a", 1, TRUE) }         \* "https://a/1#f"

\* src/utils/text.js toAbsoluteUrl
toAbsoluteUrl(value) ==
  IF value = NoUrl THEN NoUrl
  ELSE IF value = BadUrl THEN NoUrl
  ELSE IF ~IsHttp(value) THEN [value EXCEPT !.scheme = "https"]
  ELSE value

(* ------------------------------ html pages ----------------------------- *)
\* an href attribute: absolute (a URL), relative to the page (path, frag),
\* empty, or unparsable
Href(k, u) == [kind |-> k, url |-> u]

Hrefs ==
  { Href("rel", Url("", "", 1, FALSE)),               \* "/1"
    Href("rel", Url("", "", 2, FALSE)),               \* "/2"
    Href("rel", Url("", "", 3, FALSE)),               \* "/3"
    Href("rel", Url("", "", 1, TRUE)),                \* "/1#f"
    Href("abs", Url("http", "a", 1, FALSE)),          \* same host, other scheme
    Href("abs", Url("http", "a", 2, FALSE)),
    Href("abs", Url("https", "b", 1, FALSE)),         \* another host
    Href("abs", Url("mailto", "a", 1, FALSE)),        \* no http(s) scheme
    Href("bad", BadUrl) }                             \* new URL() throws

\* a page that links to many pages of the site
Rich ==
  << Href("rel", Url("", "", 2, FALSE)), Href("abs", Url("http", "a", 1, FALSE)),
     Href("rel", Url("", "", 1, TRUE)), Href("rel", Url("", "", 3, FALSE)),
     Href("abs", Url("http", "a", 2, FALSE)), Href("abs", Url("https", "b", 1, FALSE)),
     Href("abs", Url("mailto", "a", 1, FALSE)), Href("rel", Url("", "", 1, FALSE)),
     Href("bad", BadUrl) >>

Reverse(s) == [j \in 1..Len(s) |-> s[Len(s) + 1 - j]]

\* the anchor lists of the pages served: every short list, and the prefixes
\* of Rich and of its reverse
HrefSeqs ==
  SeqsUpTo(Hrefs, MaxShort)
  \cup { Take(Rich, n) : n \in 0..MaxHrefs }
  \cup { Take(Reverse(Rich), n) : n \in 0..MaxHrefs }

BodyLens == {MIN_WEBSITE_LENGTH - 1, MIN_WEBSITE_LENGTH}

\* the bodies a page fetch can return
Htmls == [hrefs : HrefSeqs, bodyLen : BodyLens]

\* new URL(href, baseUrl)
Resolve(href, baseUrl) ==
  IF href.kind = "abs" THEN href.url
  ELSE Url(baseUrl.scheme, baseUrl.host, href.url.path, href.url.frag)

\* src/utils/website.js extractLinks
\* extractLinks without .slice(0, MAX_LINKS_PER_PAGE)
extractLinksUncapped(hrefs, baseUrl, baseHost) ==
  LET kept == SelectSeq(hrefs, LAMBDA href : /\ href.kind \in {"abs", "rel"}
                                             /\ IsHttp(Resolve(href, baseUrl))
                                             /\ Resolve(href, baseUrl).host = baseHost)
      links == [i \in 1..Len(kept) |-> [Resolve(kept[i], baseUrl) EXCEPT !.frag = FALSE]]
  IN SetOrder(links)

\* extractLinks without `if (resolved.hostname !== baseHost) return`
extractLinksAnyHost(hrefs, baseUrl, baseHost) ==
  LET kept == SelectSeq(hrefs, LAMBDA href : /\ href.kind \in {"abs", "rel"}
                                             /\ IsHttp(Resolve(href, baseUrl)))
      links == [i \in 1..Len(kept) |-> [Resolve(kept[i], baseUrl) EXCEPT !.frag = FALSE]]
  IN Take(SetOrder(links), MAX_LINKS_PER_PAGE)

extractLinks(hrefs, baseUrl, baseHost) ==
  LET kept == SelectSeq(hrefs, LAMBDA href :
                          /\ href.kind \in {"abs", "rel"}      \* catch { ignore invalid URLs }
                          /\ IsHttp(Resolve(href, baseUrl))
                          /\ Resolve(href, baseUrl).host = baseHost)
      links == [i \in 1..Len(kept) |-> [Resolve(kept[i], baseUrl) EXCEPT !.frag = FALSE]]
  IN Take(SetOrder(links), MAX_LINKS_PER_PAGE)

(* ------------------------------ sitemaps ------------------------------- *)
\* the text of a <loc> element: empty, a string that is no http URL, or a URL
SitemapLocs ==
  { NoUrl, Url("ftp", "a", 1, FALSE), Url("https", "a", 1, FALSE), Url("https", "a", 2, FALSE) }

LocSeqs == SeqsUpTo(SitemapLocs, MaxLocs)

\* A sitemap body.  urlset / sitemapindex: the loc of every entry the XML
\* parser finds under urlset.url / sitemapindex.sitemap; raw: the texts
\* between <loc> tags in the body; mentionsIndex: the body contains the
\* substring 'sitemapindex' or 'sitemap-index'; parses: xmlParser.parse
\* does not throw.
Xml(us, si, raw, m, ok) ==
  [urlset |-> us, sitemapindex |-> si, raw |-> raw, mentionsIndex |-> m, parses |-> ok]

XmlDocs ==
  { Xml(l, <<>>, l, m, TRUE) : l \in LocSeqs, m \in BOOLEAN }        \* standard sitemap
  \cup { Xml(<<>>, l, l, TRUE, TRUE) : l \in LocSeqs }                \* sitemap index
  \cup { Xml(<<>>, <<>>, l, m, TRUE) : l \in LocSeqs, m \in BOOLEAN } \* other shape, <loc> tags in the body
  \cup { Xml(<<>>, <<>>, <<>>, m, FALSE) : m \in BOOLEAN }            \* unparsable

\* src/utils/website.js extractUrlsFromSitemap
extractUrlsFromSitemap(parsed, rawXml) ==
  LET fromUrlset == SelectSeq(parsed.urlset, LAMBDA loc : loc # NoUrl)
      fromIndex == SelectSeq(parsed.sitemapindex, LAMBDA loc : loc # NoUrl)
      urls == fromUrlset \o fromIndex
  IN IF Len(urls) = 0 /\ Len(rawXml) > 0
     THEN SelectSeq(rawXml, LAMBDA url : url # NoUrl /\ IsHttp(url))
     ELSE urls

\* the bodies a nested sitemap fetch can return
NestedXmlDocs == {d \in XmlDocs : Len(d.raw) <= MaxNestedLocs}

sitemapPaths == <<"/sitemap.xml", "/sitemap_index.xml", "/sitemap-index.xml">>

(* ------------------------------ namespace ------------------------------ *)
\* the characters of the strings a request carries
Chars == {"a", "n", "A", "1", " ", "!", "-", "d", "e", "f", "u", "l", "t", "D"}

Spaces == {" "}                                 \* \s

toLowerCase(s) ==
  [i \in 1..Len(s) |-> IF s[i] = "A" THEN "a" ELSE IF s[i] = "D" THEN "d" ELSE s[i]]

SlugChars == {"a", "n", "1", "d", "e", "f", "u", "l", "t"}     \* [a-z0-9]

RECURSIVE TrimLeft(_, _)
\* s without its longest prefix of characters of D
TrimLeft(s, D) == IF Len(s) > 0 /\ Head(s) \in D THEN TrimLeft(Tail(s), D) ELSE s

RECURSIVE TrimRight(_, _)
TrimRight(s, D) ==
  IF Len(s) > 0 /\ s[Len(s)] \in D THEN TrimRight(SubSeq(s, 1, Len(s) - 1), D) ELSE s

trim(s) == TrimRight(TrimLeft(s, Spaces), Spaces)

\* .replace(/[^a-z0-9]+/g, '-')
RECURSIVE CollapseNonSlug(_)
CollapseNonSlug(s) ==
  IF Len(s) = 0 THEN <<>>
  ELSE IF Head(s) \in SlugChars THEN <<Head(s)>> \o CollapseNonSlug(Tail(s))
  ELSE <<"-">> \o CollapseNonSlug(TrimLeft(s, Chars \ SlugChars))

\* .replace(/^-+/g, ''): the hyphens at the end stay
StripHyphensLeading(s) == TrimLeft(s, {"-"})

\* .replace(/^-+|-+$/g, '')
StripHyphens(s) == TrimRight(TrimLeft(s, {"-"}), {"-"})

Default == <<"d", "e", "f", "a", "u", "l", "t">>       \* the literal 'default'

\* src/utils/namespace.js deriveNamespace
\* deriveNamespace that looks at the organisation before the namespace
deriveNamespaceOrganisationFirst(namespaceValue, organisation) ==
  LET slug == StripHyphens(CollapseNonSlug(toLowerCase(organisation)))
  IN IF Len(trim(organisation)) > 0 /\ Len(slug) > 0 THEN slug
     ELSE IF Len(trim(namespaceValue)) > 0 THEN trim(namespaceValue)
     ELSE Default

deriveNamespace(namespaceValue, organisation) ==
  IF Len(trim(namespaceValue)) > 0 THEN trim(namespaceValue)
  ELSE LET slug == StripHyphens(CollapseNonSlug(toLowerCase(organisation)))
       IN IF Len(trim(organisation)) > 0 /\ Len(slug) > 0 THEN slug ELSE Default

(* ------------------------------ splitting ------------------------------ *)
\* number of chunks RecursiveCharacterTextSplitter(splitterConfig) makes of a
\* text of len characters without separators
NumChunks(len) ==
  IF len = 0 THEN 0
  ELSE IF len <= chunkSize THEN 1
  ELSE 1 + ((len - chunkSize) + (chunkSize - chunkOverlap) - 1) \div (chunkSize - chunkOverlap)

RECURSIVE Repeat(_, _)
Repeat(x, n) == IF n = 0 THEN <<>> ELSE <<x>> \o Repeat(x, n - 1)

RECURSIVE splitDocuments(_)
\* textSplitter.splitDocuments: the chunks of every document, in order, each
\* carrying its document's metadata (source)
splitDocuments(documents) ==
  IF Len(documents) = 0 THEN <<>>
  ELSE Repeat([source |-> Head(documents).source], NumChunks(Head(documents).len))
       \o splitDocuments(Tail(documents))

FileSource == Url("file", "", 0, FALSE)          \* metadata.source of an uploaded file
FileLens == {150}          \* text lengths of an uploaded file

(* ------------------------------- state --------------------------------- *)
VARIABLES
  limit,              \* MAX_WEBSITE_PAGES
  pc,                 \* position of the request
  uploadedFile,       \* handler: req.file is present
  crawlTargetUrl,     \* handler: url?.trim() || website?.trim()
  bodyNamespace,      \* handler: req.body.namespace
  bodyOrganisation,   \* handler: req.body.organisation
  targetNamespace,    \* handler: deriveNamespace(namespace, organisation)
  normalizedUrl,      \* ingestWebsite: toAbsoluteUrl(url)
  cand,               \* fetchSitemapUrls: index into sitemapPaths
  nestedSitemapUrls,  \* fetchSitemapUrls: the nested sitemaps still to fetch
  allUrls,            \* fetchSitemapUrls: URLs of the nested sitemaps so far
  xml,                \* fetchSitemapUrls: the body read by response.text()
  sitemapUrls,        \* collectWebsitePages
  urlsToFetch,        \* downloadPagesSequentially
  i,                  \* downloadPagesSequentially: loop index (from 1)
  previousUrl,        \* downloadPagesSequentially
  queue, seen, current,   \* crawlWebsite
  pages,              \* downloadPagesSequentially / crawlWebsite / ingestWebsite
  attempts,           \* history: the URLs handed to fetchWebsiteContent, in order
  inFlight,           \* the number of network requests issued and not yet settled
  enqueued,           \* history of crawlWebsite: the URLs put in the queue, in order
  site, reqs,         \* two crawls in one process: the site they read and the locals of each call
  log,                \* history: how each fetch of a page ended ("ok", "fail") and each delay that was waited ("delay")
  parsedDocuments,    \* ingestWebsite
  store,              \* the vector store: entries [namespace, source]
  writes,             \* history: the calls of PineconeStore.fromDocuments and how they ended
  documentResult, websiteResult,   \* handler
  response            \* HTTP status sent, 0 before

vars == <<limit, pc, uploadedFile, crawlTargetUrl, bodyNamespace, bodyOrganisation,
          targetNamespace, normalizedUrl,
          cand, nestedSitemapUrls, allUrls, xml, sitemapUrls, urlsToFetch, i, previousUrl,
          queue, seen, current, enqueued, pages, attempts, log, inFlight, site, reqs,
          parsedDocuments, store, writes,
          documentResult, websiteResult, response>>

handlerVars == <<uploadedFile, crawlTargetUrl, bodyNamespace, bodyOrganisation, targetNamespace>>
sitemapVars == <<cand, nestedSitemapUrls, allUrls, xml>>
downloadVars == <<urlsToFetch, i, previousUrl>>
crawlVars == <<queue, seen, current, enqueued>>
storeVars == <<store, writes>>

NoResult == [returned |-> FALSE, success |-> FALSE, error |-> "", chunks |-> 0,
             pagesProcessed |-> 0, pagesIndexed |-> 0]

Success(chunks, pagesProcessed, pagesIndexed) ==
  [returned |-> TRUE, success |-> TRUE, error |-> "", chunks |-> chunks,
   pagesProcessed |-> pagesProcessed, pagesIndexed |-> pagesIndexed]

\* the catch block: { success: false, error: error.message }
Failure(message) ==
  [returned |-> TRUE, success |-> FALSE, error |-> message, chunks |-> 0,
   pagesProcessed |-> 0, pagesIndexed |-> 0]

NoXml == Xml(<<>>, <<>>, <<>>, FALSE, TRUE)

Init ==
  /\ limit \in 0..MaxLimit
  /\ pc = "idle"
  /\ uploadedFile = FALSE
  /\ crawlTargetUrl = NoUrl
  /\ bodyNamespace = <<>>
  /\ bodyOrganisation = <<>>
  /\ targetNamespace = <<>>
  /\ normalizedUrl = NoUrl
  /\ cand = 1
  /\ nestedSitemapUrls = <<>>
  /\ allUrls = <<>>
  /\ xml = NoXml
  /\ sitemapUrls = <<>>
  /\ urlsToFetch = <<>>
  /\ i = 1
  /\ previousUrl = NoUrl
  /\ queue = <<>>
  /\ seen = {}
  /\ current = NoUrl
  /\ pages = <<>>
  /\ attempts = <<>>
  /\ log = <<>>
  /\ inFlight = 0
  /\ enqueued = <<>>
  /\ site = <<>>
  /\ reqs = <<>>
  /\ parsedDocuments = <<>>
  /\ writes = <<>>
  /\ documentResult = NoResult
  /\ websiteResult = NoResult
  /\ response = 0
  /\ store = <<>>

\* the positions at which a request waits for a fetch it has issued
FetchPcs == {"sm_fetch", "sm_nested_fetch", "dl_fetch", "crawl_fetch"}

(* ------------------------- the vector store ---------------------------- *)
\* What PineconeStore.fromDocuments(docs, embeddings, {namespace}) can do:
\* resolve after writing every chunk, or reject (embedding call or upsert
\* failed) after writing fewer.
WriteOutcomes(docs) ==
  {[ok |-> TRUE, written |-> Len(docs)]}
  \cup {[ok |-> FALSE, written |-> k] : k \in 0..(IF Len(docs) = 0 THEN 0 ELSE Len(docs) - 1)}

\* the write of a caller that passes no namespace: the parameter's default 'default' is used
EntriesDefault(docs, namespace) ==
  [j \in 1..Len(docs) |-> [namespace |-> Default, source |-> docs[j].source]]

Entries(docs, namespace) ==
  [j \in 1..Len(docs) |-> [namespace |-> namespace, source |-> docs[j].source]]

fromDocuments(by, docs, namespace, outcome) ==
  /\ store' = store \o SubSeq(Entries(docs, namespace), 1, outcome.written)
  /\ writes' = Append(writes, [by |-> by, total |-> Len(docs), ok |-> outcome.ok])

(* --------------------- POST /ingest (src/index.js) --------------------- *)
NamespaceInputs == {<<>>, <<" ", "n">>}
OrganisationInputs == {<<"A", "!">>}
WebsiteInputs == {NoUrl, Url("", "a", 1, FALSE)}

\* the handler up to its first await
HandlerStart ==
  /\ pc = "idle"
  /\ \E namespace \in NamespaceInputs, organisation \in OrganisationInputs,
        url \in RawUrls, website \in WebsiteInputs, file \in BOOLEAN :
       LET target == IF url # NoUrl THEN url ELSE website
       IN /\ bodyNamespace' = namespace
          /\ bodyOrganisation' = organisation
          /\ targetNamespace' = deriveNamespace(namespace, organisation)
          /\ crawlTargetUrl' = target
          /\ uploadedFile' = file
          /\ IF ~file /\ target = NoUrl
             THEN response' = 400 /\ pc' = "done"
             ELSE response' = response /\ pc' = (IF file THEN "file" ELSE "web_start")
  /\ UNCHANGED <<limit, site, reqs, normalizedUrl, sitemapVars, sitemapUrls, downloadVars, crawlVars,
                 pages, attempts, log, inFlight, parsedDocuments, storeVars, documentResult, websiteResult>>

\* ingestDocumentFromBuffer that does not wait for the write to settle
documentResultUnawaited(parsed, docs, outcome) ==
  IF ~parsed THEN Failure("pdf-parse") ELSE Success(Len(docs), 0, 0)

\* what ingestDocumentFromBuffer returns: the record of its last lines, or
\* the record of its catch block when pdf-parse or the write threw
documentResultOf(parsed, docs, outcome) ==
  IF ~parsed THEN Failure("pdf-parse")
  ELSE IF outcome.ok THEN Success(Len(docs), 0, 0)
  ELSE Failure("store")

\* ingestDocumentFromBuffer (src/ingest.js) and the handler's code after it
IngestDocument ==
  /\ pc = "file"
  /\ \E len \in FileLens, parsed \in BOOLEAN :
       LET rawDocs == <<[source |-> FileSource, len |-> len]>>
           docs == splitDocuments(rawDocs)
       IN \E outcome \in WriteOutcomes(docs) :
            LET result == documentResultOf(parsed, docs, outcome)
            IN /\ IF parsed THEN fromDocuments("document", docs, targetNamespace, outcome)
                            ELSE UNCHANGED storeVars
               /\ documentResult' = result
               /\ IF ~result.success THEN response' = 500 /\ pc' = "done"
                  ELSE IF crawlTargetUrl # NoUrl THEN response' = response /\ pc' = "web_start"
                  ELSE response' = 200 /\ pc' = "done"
  /\ UNCHANGED <<limit, site, reqs, handlerVars, normalizedUrl, sitemapVars, sitemapUrls, downloadVars,
                 crawlVars, pages, attempts, log, inFlight, parsedDocuments, websiteResult>>

\* ingestWebsite returns `result` and the handler's code after it runs
WebsiteReturn(result) ==
  /\ websiteResult' = result
  /\ response' = (IF result.success THEN 200 ELSE 500)
  /\ pc' = "done"

(* ------------------- ingestWebsite (src/ingest.js) --------------------- *)
\* ingestWebsite up to the first pass of fetchSitemapUrls' loop
IngestWebsiteStart ==
  /\ pc = "web_start"
  /\ normalizedUrl' = toAbsoluteUrl(crawlTargetUrl)
  /\ IF normalizedUrl' = NoUrl
     THEN WebsiteReturn(Failure("A valid URL is required to scrape website content."))
     ELSE pc' = "sm_loop" /\ UNCHANGED <<websiteResult, response>>
  /\ cand' = 1
  /\ UNCHANGED <<limit, site, reqs, handlerVars, nestedSitemapUrls, allUrls, xml, sitemapUrls, downloadVars,
                 crawlVars, pages, attempts, log, inFlight, parsedDocuments, storeVars, documentResult>>

(* --------------- collectWebsitePages (src/utils/website.js) ------------ *)
\* downloadPagesSequentially: const urlsToFetch = urls.slice(0, limit)
\* downloadPagesSequentially without the slice
urlsToFetchAll(urls) == urls

urlsToFetchOf(urls) == Take(urls, limit)

\* collectWebsitePages after `await fetchSitemapUrls(url, limit)` returned
\* urls: the set-up of downloadPagesSequentially or of crawlWebsite.  The
\* locals of fetchSitemapUrls end with its return.
CollectPages(urls) ==
  /\ sitemapUrls' = urls
  /\ cand' = 1
  /\ nestedSitemapUrls' = <<>>
  /\ allUrls' = <<>>
  /\ pages' = <<>>
  /\ IF Len(urls) > 0
     THEN LET normalized == IF Includes(urls, normalizedUrl) THEN urls
                            ELSE <<normalizedUrl>> \o urls
          IN /\ urlsToFetch' = urlsToFetchOf(normalized)
             /\ i' = 1
             /\ previousUrl' = NoUrl
             /\ pc' = "dl_loop"
             /\ UNCHANGED crawlVars
     ELSE /\ queue' = <<normalizedUrl>>
          /\ enqueued' = <<normalizedUrl>>
          /\ seen' = {}
          /\ current' = NoUrl
          /\ pc' = "crawl_loop"
          /\ UNCHANGED downloadVars

(* ---------------- fetchSitemapUrls (src/utils/website.js) -------------- *)
\* loop head: fetch the next candidate path, or `return []`
SitemapLoop ==
  /\ pc = "sm_loop"
  /\ IF cand <= Len(sitemapPaths)
     THEN /\ pc' = "sm_fetch"
          /\ UNCHANGED <<sitemapUrls, downloadVars, crawlVars, pages>>
          /\ UNCHANGED <<cand, nestedSitemapUrls, allUrls>>
     ELSE CollectPages(<<>>)
  /\ inFlight' = (IF pc' \in FetchPcs THEN inFlight + 1 ELSE inFlight)
  /\ UNCHANGED <<limit, site, reqs, handlerVars, normalizedUrl, xml, attempts, log, parsedDocuments,
                 storeVars, documentResult, websiteResult, response>>

\* a failed fetch whose error leaves fetchSitemapUrls and is caught by ingestWebsite
SitemapFetchFailThrows ==
  /\ pc = "sm_fetch"
  /\ WebsiteReturn(Failure("fetch failed"))
  /\ inFlight' = inFlight - 1
  /\ UNCHANGED <<limit, site, reqs, handlerVars, normalizedUrl, cand, nestedSitemapUrls, allUrls, xml, sitemapUrls,
                 downloadVars, crawlVars, pages, attempts, log, parsedDocuments, storeVars,
                 documentResult>>

\* the fetch threw or answered with a non-success status: next candidate
SitemapFetchFail ==
  /\ pc = "sm_fetch"
  /\ cand' = cand + 1
  /\ pc' = "sm_loop"
  /\ inFlight' = inFlight - 1
  /\ UNCHANGED <<limit, site, reqs, handlerVars, normalizedUrl, nestedSitemapUrls, allUrls, xml, sitemapUrls,
                 downloadVars, crawlVars, pages, attempts, log, parsedDocuments, storeVars,
                 documentResult, websiteResult, response>>

\* response.ok: await response.text()
SitemapFetchOk ==
  /\ pc = "sm_fetch"
  /\ xml' \in XmlDocs
  /\ pc' = "sm_parse"
  /\ inFlight' = inFlight - 1
  /\ UNCHANGED <<limit, site, reqs, handlerVars, normalizedUrl, cand, nestedSitemapUrls, allUrls, sitemapUrls,
                 downloadVars, crawlVars, pages, attempts, log, parsedDocuments, storeVars,
                 documentResult, websiteResult, response>>

\* the body of the candidate is parsed
SitemapParse ==
  /\ pc = "sm_parse"
  /\ LET urls == extractUrlsFromSitemap(xml, xml.raw)
         next == /\ cand' = cand + 1
                 /\ pc' = "sm_loop"
                 /\ UNCHANGED <<nestedSitemapUrls, allUrls, sitemapUrls, downloadVars,
                                crawlVars, pages>>
     IN IF ~xml.parses THEN next                       \* catch (error) { continue }
        ELSE IF xml.mentionsIndex
        THEN IF Len(urls) = 0 THEN next
             ELSE /\ nestedSitemapUrls' = Take(urls, MAX_NESTED_SITEMAPS)
                  /\ allUrls' = <<>>
                  /\ pc' = "sm_nested_loop"
                  /\ UNCHANGED <<cand, sitemapUrls, downloadVars, crawlVars, pages>>
        ELSE IF Len(urls) > 0
        THEN CollectPages(Take(urls, limit))
        ELSE next
  /\ xml' = NoXml
  /\ UNCHANGED <<limit, site, reqs, handlerVars, normalizedUrl, attempts, log, inFlight, parsedDocuments, storeVars,
                 documentResult, websiteResult, response>>

\* the nested sitemaps fetched all at once (Promise.all) instead of one by one
NestedLoopAll ==
  /\ pc = "sm_nested_loop"
  /\ IF Len(nestedSitemapUrls) > 0
     THEN /\ pc' = "sm_nested_fetch"
          /\ inFlight' = inFlight + Len(nestedSitemapUrls)
          /\ UNCHANGED <<cand, nestedSitemapUrls, allUrls, sitemapUrls, downloadVars,
                         crawlVars, pages>>
     ELSE /\ inFlight' = inFlight
          /\ IF Len(allUrls) > 0
             THEN CollectPages(Take(allUrls, limit))
             ELSE /\ cand' = cand + 1
                  /\ pc' = "sm_loop"
                  /\ UNCHANGED <<nestedSitemapUrls, allUrls, sitemapUrls, downloadVars, crawlVars, pages>>
  /\ UNCHANGED <<limit, site, reqs, handlerVars, normalizedUrl, xml, attempts, log,
                 parsedDocuments, storeVars, documentResult, websiteResult, response>>

\* head of the loop over the nested sitemaps, and the code after it
NestedLoop ==
  /\ pc = "sm_nested_loop"
  /\ IF Len(nestedSitemapUrls) > 0
     THEN /\ pc' = "sm_nested_fetch"
          /\ UNCHANGED <<cand, nestedSitemapUrls, allUrls, sitemapUrls, downloadVars,
                         crawlVars, pages>>
     ELSE IF Len(allUrls) > 0
     THEN CollectPages(Take(allUrls, limit))
     ELSE /\ cand' = cand + 1
          /\ pc' = "sm_loop"
          /\ UNCHANGED <<nestedSitemapUrls, allUrls, sitemapUrls, downloadVars, crawlVars, pages>>
  /\ inFlight' = (IF pc' \in FetchPcs THEN inFlight + 1 ELSE inFlight)
  /\ UNCHANGED <<limit, site, reqs, handlerVars, normalizedUrl, xml, attempts, log,
                 parsedDocuments, storeVars, documentResult, websiteResult, response>>

\* the nested fetch threw or answered with a non-success status
NestedFetchFail ==
  /\ pc = "sm_nested_fetch"
  /\ nestedSitemapUrls' = Tail(nestedSitemapUrls)
  /\ pc' = "sm_nested_loop"
  /\ inFlight' = inFlight - 1
  /\ UNCHANGED <<limit, site, reqs, handlerVars, normalizedUrl, cand, allUrls, xml, sitemapUrls, downloadVars,
                 crawlVars, pages, attempts, log, parsedDocuments, storeVars, documentResult,
                 websiteResult, response>>

\* nestedResponse.ok: the body is read and parsed, its URLs are kept
NestedFetchOk ==
  /\ pc = "sm_nested_fetch"
  /\ IsHttp(Head(nestedSitemapUrls))
  /\ \E nestedXml \in NestedXmlDocs :
       allUrls' = (IF nestedXml.parses
                   THEN allUrls \o extractUrlsFromSitemap(nestedXml, nestedXml.raw)
                   ELSE allUrls)                      \* catch (error) { console.warn }
  /\ nestedSitemapUrls' = Tail(nestedSitemapUrls)
  /\ pc' = "sm_nested_loop"
  /\ inFlight' = inFlight - 1
  /\ UNCHANGED <<limit, site, reqs, handlerVars, normalizedUrl, cand, xml, sitemapUrls, downloadVars,
                 crawlVars, pages, attempts, log, parsedDocuments, storeVars, documentResult,
                 websiteResult, response>>

(* ----------- downloadPagesSequentially (src/utils/website.js) ---------- *)
\* a downloader that falls back to the crawl when no page could be fetched
DownloadLoopFallback ==
  /\ pc = "dl_loop"
  /\ IF i <= Len(urlsToFetch)
     THEN attempts' = Append(attempts, urlsToFetch[i]) /\ pc' = "dl_fetch" /\ UNCHANGED crawlVars
     ELSE IF Len(pages) = 0
     THEN /\ attempts' = attempts
          /\ queue' = <<normalizedUrl>>
          /\ enqueued' = <<normalizedUrl>>
          /\ pc' = "crawl_loop"
          /\ UNCHANGED <<seen, current>>
     ELSE attempts' = attempts /\ pc' = "web_parse" /\ UNCHANGED crawlVars
  /\ inFlight' = (IF pc' \in FetchPcs THEN inFlight + 1 ELSE inFlight)
  /\ UNCHANGED <<limit, site, reqs, handlerVars, log, normalizedUrl, sitemapVars, sitemapUrls, downloadVars,
                 pages, parsedDocuments, storeVars, documentResult, websiteResult,
                 response>>

\* loop head: fetch urlsToFetch[i], or `return pages`
DownloadLoop ==
  /\ pc = "dl_loop"
  /\ IF i <= Len(urlsToFetch)
     THEN attempts' = Append(attempts, urlsToFetch[i]) /\ pc' = "dl_fetch"
     ELSE attempts' = attempts /\ pc' = "web_parse"
  /\ inFlight' = (IF pc' \in FetchPcs THEN inFlight + 1 ELSE inFlight)
  /\ UNCHANGED <<limit, site, reqs, handlerVars, log, normalizedUrl, sitemapVars, sitemapUrls, downloadVars,
                 crawlVars, pages, parsedDocuments, storeVars, documentResult, websiteResult,
                 response>>

\* fetchWebsiteContent returned html
DownloadFetchOk ==
  /\ pc = "dl_fetch"
  /\ IsHttp(urlsToFetch[i])
  /\ \E html \in Htmls :
       pages' = Append(pages, [url |-> urlsToFetch[i], bodyLen |-> html.bodyLen])
  /\ previousUrl' = urlsToFetch[i]
  /\ IF i < Len(urlsToFetch)
     THEN pc' = "dl_delay" /\ i' = i
     ELSE pc' = "dl_loop" /\ i' = i + 1
  /\ log' = Append(log, "ok")
  /\ inFlight' = inFlight - 1
  /\ UNCHANGED <<limit, site, reqs, handlerVars, normalizedUrl, sitemapVars, sitemapUrls, urlsToFetch,
                 crawlVars, attempts, parsedDocuments, storeVars, documentResult,
                 websiteResult, response>>

\* a failed fetch that ends the loop instead of going on with the next URL
DownloadFetchFailAbort ==
  /\ pc = "dl_fetch"
  /\ i' = Len(urlsToFetch) + 1
  /\ pc' = "dl_loop"
  /\ log' = Append(log, "fail")
  /\ inFlight' = inFlight - 1
  /\ UNCHANGED <<limit, site, reqs, handlerVars, normalizedUrl, sitemapVars, sitemapUrls, urlsToFetch,
                 previousUrl, crawlVars, pages, attempts, parsedDocuments, storeVars,
                 documentResult, websiteResult, response>>

\* a failed fetch that still pushes a page for its URL
DownloadFetchFailKeepsPage ==
  /\ pc = "dl_fetch"
  /\ pages' = Append(pages, [url |-> urlsToFetch[i], bodyLen |-> 0])
  /\ i' = i + 1
  /\ pc' = "dl_loop"
  /\ log' = Append(log, "fail")
  /\ inFlight' = inFlight - 1
  /\ UNCHANGED <<limit, site, reqs, handlerVars, normalizedUrl, sitemapVars, sitemapUrls, urlsToFetch,
                 previousUrl, crawlVars, attempts, parsedDocuments, storeVars,
                 documentResult, websiteResult, response>>

\* fetchWebsiteContent threw: catch, next URL
DownloadFetchFail ==
  /\ pc = "dl_fetch"
  /\ i' = i + 1
  /\ pc' = "dl_loop"
  /\ log' = Append(log, "fail")
  /\ inFlight' = inFlight - 1
  /\ UNCHANGED <<limit, site, reqs, handlerVars, normalizedUrl, sitemapVars, sitemapUrls, urlsToFetch,
                 previousUrl, crawlVars, pages, attempts, parsedDocuments, storeVars,
                 documentResult, websiteResult, response>>

\* the delay between two requests is over
DownloadDelayDone ==
  /\ pc = "dl_delay"
  /\ i' = i + 1
  /\ pc' = "dl_loop"
  /\ log' = Append(log, "delay")
  /\ inFlight' = inFlight
  /\ UNCHANGED <<limit, site, reqs, handlerVars, normalizedUrl, sitemapVars, sitemapUrls, urlsToFetch,
                 previousUrl, crawlVars, pages, attempts, parsedDocuments, storeVars,
                 documentResult, websiteResult, response>>

(* ------------------ crawlWebsite (src/utils/website.js) ---------------- *)
RECURSIVE EnqueueUnbounded(_, _, _, _)
\* links.forEach without the `queue.length + pages.length < limit * 2` test
EnqueueUnbounded(q, links, seenNow, npages) ==
  IF Len(links) = 0 THEN q
  ELSE IF Head(links) \notin seenNow
  THEN EnqueueUnbounded(Append(q, Head(links)), Tail(links), seenNow, npages)
  ELSE EnqueueUnbounded(q, Tail(links), seenNow, npages)

RECURSIVE Enqueue(_, _, _, _)
\* links.forEach: push every link not seen while queue.length + pages.length < limit * 2
Enqueue(q, links, seenNow, npages) ==
  IF Len(links) = 0 THEN q
  ELSE IF Head(links) \notin seenNow /\ Len(q) + npages < limit * 2
  THEN Enqueue(Append(q, Head(links)), Tail(links), seenNow, npages)
  ELSE Enqueue(q, Tail(links), seenNow, npages)

baseHost == normalizedUrl.host

\* the loop without seen.add(current)
seenAddNothing(s, url) == s

\* seen.add(current)
seenAdd(s, url) == s \cup {url}

\* the loop with `queue[0]` for `queue.shift()` on the pass that skips a seen URL
CrawlLoopNoShift ==
  /\ pc = "crawl_loop"
  /\ IF Len(queue) > 0 /\ Len(pages) < limit
     THEN IF Head(queue) = NoUrl \/ Head(queue) \in seen
          THEN UNCHANGED <<queue, seen, current, attempts, pc>>
          ELSE /\ queue' = Tail(queue)
               /\ seen' = seenAdd(seen, Head(queue))
               /\ current' = Head(queue)
               /\ attempts' = Append(attempts, Head(queue))
               /\ pc' = "crawl_fetch"
     ELSE pc' = "web_parse" /\ UNCHANGED <<queue, seen, current, attempts>>
  /\ inFlight' = (IF pc' \in FetchPcs THEN inFlight + 1 ELSE inFlight)
  /\ enqueued' = enqueued
  /\ UNCHANGED <<limit, site, reqs, handlerVars, log, normalizedUrl, sitemapVars, sitemapUrls, downloadVars,
                 pages, parsedDocuments, storeVars, documentResult, websiteResult, response>>

\* the loop with `queue.pop()` for `queue.shift()`: the newest URL first
CrawlLoopLifo ==
  /\ pc = "crawl_loop"
  /\ IF Len(queue) > 0 /\ Len(pages) < limit
     THEN /\ queue' = SubSeq(queue, 1, Len(queue) - 1)
          /\ IF queue[Len(queue)] = NoUrl \/ queue[Len(queue)] \in seen
             THEN UNCHANGED <<seen, current, attempts, pc>>
             ELSE /\ seen' = seenAdd(seen, queue[Len(queue)])
                  /\ current' = queue[Len(queue)]
                  /\ attempts' = Append(attempts, queue[Len(queue)])
                  /\ pc' = "crawl_fetch"
     ELSE pc' = "web_parse" /\ UNCHANGED <<queue, seen, current, attempts>>
  /\ inFlight' = (IF pc' \in FetchPcs THEN inFlight + 1 ELSE inFlight)
  /\ enqueued' = enqueued
  /\ UNCHANGED <<limit, site, reqs, handlerVars, log, normalizedUrl, sitemapVars, sitemapUrls, downloadVars,
                 pages, parsedDocuments, storeVars, documentResult, websiteResult, response>>

\* loop head: dequeue, skip a seen URL, else mark it seen and fetch it; or `return pages`
CrawlLoop ==
  /\ pc = "crawl_loop"
  /\ IF Len(queue) > 0 /\ Len(pages) < limit
     THEN /\ queue' = Tail(queue)
          /\ IF Head(queue) = NoUrl \/ Head(queue) \in seen
             THEN UNCHANGED <<seen, current, attempts, pc>>
             ELSE /\ seen' = seenAdd(seen, Head(queue))
                  /\ current' = Head(queue)
                  /\ attempts' = Append(attempts, Head(queue))
                  /\ pc' = "crawl_fetch"
     ELSE pc' = "web_parse" /\ UNCHANGED <<queue, seen, current, attempts>>
  /\ inFlight' = (IF pc' \in FetchPcs THEN inFlight + 1 ELSE inFlight)
  /\ enqueued' = enqueued
  /\ UNCHANGED <<limit, site, reqs, handlerVars, log, normalizedUrl, sitemapVars, sitemapUrls, downloadVars,
                 pages, parsedDocuments, storeVars, documentResult, websiteResult, response>>

\* fetchWebsiteContent returned html
CrawlFetchOk ==
  /\ pc = "crawl_fetch"
  /\ \E html \in Htmls :
       /\ pages' = Append(pages, [url |-> current, bodyLen |-> html.bodyLen])
       /\ IF Len(pages') >= limit
          THEN queue' = queue /\ pc' = "web_parse"       \* break
          ELSE /\ queue' = Enqueue(queue, extractLinks(html.hrefs, current, baseHost),
                                   seen, Len(pages'))
               /\ pc' = "crawl_delay"
  /\ enqueued' = enqueued \o SubSeq(queue', Len(queue) + 1, Len(queue'))
  /\ log' = Append(log, "ok")
  /\ inFlight' = inFlight - 1
  /\ UNCHANGED <<limit, site, reqs, handlerVars, normalizedUrl, sitemapVars, sitemapUrls, downloadVars,
                 seen, current, attempts, parsedDocuments, storeVars, documentResult,
                 websiteResult, response>>

\* a failed fetch that takes the URL out of `seen` again
CrawlFetchFailForgets ==
  /\ pc = "crawl_fetch"
  /\ seen' = seen \ {current}
  /\ pc' = "crawl_loop"
  /\ log' = Append(log, "fail")
  /\ inFlight' = inFlight - 1
  /\ UNCHANGED <<limit, site, reqs, handlerVars, normalizedUrl, sitemapVars, sitemapUrls, downloadVars,
                 queue, current, enqueued, pages, attempts, parsedDocuments, storeVars, documentResult,
                 websiteResult, response>>

\* fetchWebsiteContent threw: catch, next pass
CrawlFetchFail ==
  /\ pc = "crawl_fetch"
  /\ pc' = "crawl_loop"
  /\ log' = Append(log, "fail")
  /\ inFlight' = inFlight - 1
  /\ UNCHANGED <<limit, site, reqs, handlerVars, normalizedUrl, sitemapVars, sitemapUrls, downloadVars,
                 crawlVars, pages, attempts, parsedDocuments, storeVars, documentResult,
                 websiteResult, response>>

\* the delay after a crawled page is over
CrawlDelayDone ==
  /\ pc = "crawl_delay"
  /\ pc' = "crawl_loop"
  /\ log' = Append(log, "delay")
  /\ inFlight' = inFlight
  /\ UNCHANGED <<limit, site, reqs, handlerVars, normalizedUrl, sitemapVars, sitemapUrls, downloadVars,
                 crawlVars, pages, attempts, parsedDocuments, storeVars, documentResult,
                 websiteResult, response>>

(* -------------- ingestWebsite after collectWebsitePages ---------------- *)
\* parseHtmlToDocument(page.html, page.url, organisation)
parseHtmlToDocument(page) == [source |-> page.url, len |-> page.bodyLen]

\* the loop over pages with `>` for `>=`
FilterPagesStrict(ps) ==
  LET parsed == [j \in 1..Len(ps) |-> parseHtmlToDocument(ps[j])]
  IN SelectSeq(parsed, LAMBDA doc : doc.len > MIN_WEBSITE_LENGTH)

\* the loop over pages without the length test
FilterPagesAll(ps) == [j \in 1..Len(ps) |-> parseHtmlToDocument(ps[j])]

\* the loop over pages: the documents of the pages with enough body text
FilterPages(ps) ==
  LET parsed == [j \in 1..Len(ps) |-> parseHtmlToDocument(ps[j])]
  IN SelectSeq(parsed, LAMBDA doc : doc.len >= MIN_WEBSITE_LENGTH)

IngestWebsiteFinish ==
  /\ pc = "web_parse"
  /\ IF Len(pages) = 0
     THEN /\ WebsiteReturn(Failure("No crawlable pages found for the provided website."))
          /\ UNCHANGED <<parsedDocuments, storeVars>>
     ELSE /\ parsedDocuments' = FilterPages(pages)
          /\ IF Len(parsedDocuments') = 0
             THEN /\ WebsiteReturn(Failure("Scraped pages did not contain enough content to ingest."))
                  /\ UNCHANGED storeVars
             ELSE LET docs == splitDocuments(parsedDocuments')
                  IN \E outcome \in WriteOutcomes(docs) :
                       /\ fromDocuments("website", docs, targetNamespace, outcome)
                       /\ WebsiteReturn(IF outcome.ok
                                        THEN Success(Len(docs), Len(pages), Len(parsedDocuments'))
                                        ELSE Failure("store"))
  /\ UNCHANGED <<limit, site, reqs, handlerVars, normalizedUrl, sitemapVars, sitemapUrls, downloadVars,
                 crawlVars, pages, attempts, log, inFlight, documentResult>>

(* --------------------------- specification ----------------------------- *)
Next ==
  \/ HandlerStart
  \/ IngestDocument
  \/ IngestWebsiteStart
  \/ SitemapLoop
  \/ SitemapFetchFail
  \/ SitemapFetchOk
  \/ SitemapParse
  \/ NestedLoop
  \/ NestedFetchFail
  \/ NestedFetchOk
  \/ DownloadLoop
  \/ DownloadFetchOk
  \/ DownloadFetchFail
  \/ DownloadDelayDone
  \/ CrawlLoop
  \/ CrawlFetchOk
  \/ CrawlFetchFail
  \/ CrawlDelayDone
  \/ IngestWebsiteFinish

Spec == Init /\ [][Next]_vars

(* A crawl taken alone: crawlWebsite(startUrl, limit) as collectWebsitePages
   calls it when no sitemap was found, for larger limits. *)
StartUrls == {toAbsoluteUrl(u) : u \in RawUrls} \ {NoUrl}

InitCrawl ==
  /\ limit \in 0..MaxCrawlLimit
  /\ normalizedUrl \in StartUrls
  /\ crawlTargetUrl = normalizedUrl
  /\ uploadedFile = FALSE
  /\ bodyNamespace = <<>>
  /\ bodyOrganisation = <<>>
  /\ targetNamespace = Default
  /\ cand = 1
  /\ nestedSitemapUrls = <<>>
  /\ allUrls = <<>>
  /\ xml = NoXml
  /\ sitemapUrls = <<>>
  /\ urlsToFetch = <<>>
  /\ i = 1
  /\ previousUrl = NoUrl
  /\ queue = <<normalizedUrl>>
  /\ seen = {}
  /\ current = NoUrl
  /\ pages = <<>>
  /\ pc = "crawl_loop"
  /\ attempts = <<>>
  /\ log = <<>>
  /\ inFlight = 0
  /\ enqueued = <<normalizedUrl>>
  /\ site = <<>>
  /\ reqs = <<>>
  /\ parsedDocuments = <<>>
  /\ store = <<>>
  /\ writes = <<>>
  /\ documentResult = NoResult
  /\ websiteResult = NoResult
  /\ response = 0

NextCrawl ==
  \/ CrawlLoop
  \/ CrawlFetchOk
  \/ CrawlFetchFail
  \/ CrawlDelayDone

SpecCrawl == InitCrawl /\ [][NextCrawl]_vars

\* the crawl when every fetch and every delay it awaits settles and the code
\* between two awaits runs
SpecCrawlFair == SpecCrawl /\ WF_vars(NextCrawl)

(* Two website ingestions in one process, each in crawlWebsite, their steps
   interleaved at the awaits. Every local of crawlWebsite is a field of the
   request's record; the site answers a URL the same way whoever asks. *)
Requests == {1, 2}

NoPage == [hrefs |-> <<>>, bodyLen |-> 0 - 1]       \* the fetch throws

\* the URLs the site serves; it answers any other URL with a failure
SiteUrls == { Url("https", "a", 1, FALSE), Url("https", "a", 2, FALSE), Url("http", "a", 1, FALSE) }

SiteAnswers ==
  { NoPage,
    [hrefs |-> Take(Rich, MaxHrefs), bodyLen |-> MIN_WEBSITE_LENGTH],
    [hrefs |-> Take(Reverse(Rich), MaxHrefs), bodyLen |-> MIN_WEBSITE_LENGTH] }

\* fetchWebsiteContent(url): the request line carries no fragment
fetchWebsiteContent(url) ==
  IF [url EXCEPT !.frag = FALSE] \in SiteUrls THEN site[[url EXCEPT !.frag = FALSE]] ELSE NoPage

\* `seen` as one set of the module, shared by every call of crawlWebsite
seenOfShared(r) == UNION { reqs[q].seen : q \in Requests }

\* `seen` of the call of crawlWebsite that request r made
seenOf(r) == reqs[r].seen

InitTwo ==
  /\ limit \in 0..MaxTwoLimit
  /\ site \in [SiteUrls -> SiteAnswers]
  /\ reqs \in [Requests -> { [pc |-> "crawl_loop", startUrl |-> u, queue |-> <<u>>, seen |-> {},
                             current |-> NoUrl, pages |-> <<>>] : u \in StartUrls }]
  /\ normalizedUrl = NoUrl
  /\ crawlTargetUrl = NoUrl
  /\ uploadedFile = FALSE
  /\ bodyNamespace = <<>>
  /\ bodyOrganisation = <<>>
  /\ targetNamespace = Default
  /\ cand = 1
  /\ nestedSitemapUrls = <<>>
  /\ allUrls = <<>>
  /\ xml = NoXml
  /\ sitemapUrls = <<>>
  /\ urlsToFetch = <<>>
  /\ i = 1
  /\ previousUrl = NoUrl
  /\ queue = <<>>
  /\ seen = {}
  /\ current = NoUrl
  /\ pages = <<>>
  /\ pc = "two"
  /\ attempts = <<>>
  /\ log = <<>>
  /\ inFlight = 0
  /\ enqueued = <<>>
  /\ parsedDocuments = <<>>
  /\ store = <<>>
  /\ writes = <<>>
  /\ documentResult = NoResult
  /\ websiteResult = NoResult
  /\ response = 0

\* the variables of the single request, which the two requests leave alone
singleVars ==
  <<limit, site, handlerVars, normalizedUrl, sitemapVars, sitemapUrls, downloadVars, crawlVars,
    pages, attempts, log, inFlight, parsedDocuments, storeVars, documentResult, websiteResult,
    response, pc>>

\* request r at the loop head: dequeue, skip a seen URL, else fetch; or `return pages`
TwoCrawlLoop(r) ==
  /\ reqs[r].pc = "crawl_loop"
  /\ IF Len(reqs[r].queue) > 0 /\ Len(reqs[r].pages) < limit
     THEN IF Head(reqs[r].queue) = NoUrl \/ Head(reqs[r].queue) \in seenOf(r)
          THEN reqs' = [reqs EXCEPT ![r].queue = Tail(@)]
          ELSE reqs' = [reqs EXCEPT ![r].queue = Tail(@),
                                    ![r].seen = seenAdd(@, Head(reqs[r].queue)),
                                    ![r].current = Head(reqs[r].queue),
                                    ![r].pc = "crawl_fetch"]
     ELSE reqs' = [reqs EXCEPT ![r].pc = "returned"]
  /\ UNCHANGED singleVars

\* the fetch of request r settled: the page is kept and its links enqueued, or the catch
TwoCrawlFetch(r) ==
  /\ reqs[r].pc = "crawl_fetch"
  /\ LET html == fetchWebsiteContent(reqs[r].current)
         pagesNow == Append(reqs[r].pages, [url |-> reqs[r].current, bodyLen |-> html.bodyLen])
     IN IF html = NoPage
        THEN reqs' = [reqs EXCEPT ![r].pc = "crawl_loop"]
        ELSE IF Len(pagesNow) >= limit
        THEN reqs' = [reqs EXCEPT ![r].pages = pagesNow, ![r].pc = "returned"]
        ELSE reqs' = [reqs EXCEPT ![r].pages = pagesNow,
                                  ![r].queue = Enqueue(@, extractLinks(html.hrefs, reqs[r].current,
                                                                        reqs[r].startUrl.host),
                                                       seenOf(r), Len(pagesNow)),
                                  ![r].pc = "crawl_delay"]
  /\ UNCHANGED singleVars

\* the delay of request r is over
TwoCrawlDelayDone(r) ==
  /\ reqs[r].pc = "crawl_delay"
  /\ reqs' = [reqs EXCEPT ![r].pc = "crawl_loop"]
  /\ UNCHANGED singleVars

NextTwo ==
  \E r \in Requests :
    \/ TwoCrawlLoop(r)
    \/ TwoCrawlFetch(r)
    \/ TwoCrawlDelayDone(r)

SpecTwo == InitTwo /\ [][NextTwo]_vars

RECURSIVE crawlWebsite(_, _, _, _)
\* crawlWebsite(startUrl, limit) run from queue q, seen-set s and page list p
\* with nothing else running: the list it returns
crawlWebsite(startUrl, q, s, p) ==
  IF ~(Len(q) > 0 /\ Len(p) < limit) THEN p
  ELSE IF Head(q) = NoUrl \/ Head(q) \in s THEN crawlWebsite(startUrl, Tail(q), s, p)
  ELSE LET html == fetchWebsiteContent(Head(q))
           pagesNow == Append(p, [url |-> Head(q), bodyLen |-> html.bodyLen])
           seenNow == seenAdd(s, Head(q))
       IN IF html = NoPage THEN crawlWebsite(startUrl, Tail(q), seenNow, p)
          ELSE IF Len(pagesNow) >= limit THEN pagesNow
          ELSE crawlWebsite(startUrl,
                            Enqueue(Tail(q), extractLinks(html.hrefs, Head(q), startUrl.host),
                                    seenNow, Len(pagesNow)),
                            seenNow, pagesNow)

(* deriveNamespace taken alone: line 150 of the handler, for every pair of
   short strings and a few longer ones. *)
NsChars == {"a", "A", "1", " ", "!", "-"}

LongStrings ==
  { Default,
    <<"D", "e", "f", "a", "u", "l", "t", "!">>,            \* "Default!"
    <<" ", "A", "!", "-", "1", "!", " ">>,                 \* " A!-1! "
    <<"-", "n", " ", " ", "A", "-">> }                     \* "-n  A-"

NsStrings == SeqsUpTo(NsChars, MaxNsLen) \cup LongStrings

InitNamespace ==
  /\ limit = 0
  /\ pc = "derive"
  /\ uploadedFile = FALSE
  /\ crawlTargetUrl = NoUrl
  /\ bodyNamespace \in NsStrings
  /\ bodyOrganisation \in NsStrings
  /\ targetNamespace = <<>>
  /\ normalizedUrl = NoUrl
  /\ cand = 1
  /\ nestedSitemapUrls = <<>>
  /\ allUrls = <<>>
  /\ xml = NoXml
  /\ sitemapUrls = <<>>
  /\ urlsToFetch = <<>>
  /\ i = 1
  /\ previousUrl = NoUrl
  /\ queue = <<>>
  /\ seen = {}
  /\ current = NoUrl
  /\ pages = <<>>
  /\ attempts = <<>>
  /\ log = <<>>
  /\ inFlight = 0
  /\ enqueued = <<>>
  /\ site = <<>>
  /\ reqs = <<>>
  /\ parsedDocuments = <<>>
  /\ store = <<>>
  /\ writes = <<>>
  /\ documentResult = NoResult
  /\ websiteResult = NoResult
  /\ response = 0

\* const targetNamespace = deriveNamespace(namespace, organisation)
DeriveNamespace ==
  /\ pc = "derive"
  /\ targetNamespace' = deriveNamespace(bodyNamespace, bodyOrganisation)
  /\ pc' = "derived"
  /\ UNCHANGED <<limit, site, reqs, uploadedFile, crawlTargetUrl, bodyNamespace, bodyOrganisation,
                 normalizedUrl, sitemapVars, sitemapUrls, downloadVars, crawlVars, pages,
                 attempts, log, inFlight, parsedDocuments, storeVars, documentResult, websiteResult,
                 response>>

NextNamespace == DeriveNamespace

SpecNamespace == InitNamespace /\ [][NextNamespace]_vars

(* ------------------------------- claims -------------------------------- *)
Crawling == pc \in {"crawl_loop", "crawl_fetch", "crawl_delay"}

\* crawlWebsite is running or has returned `pages`
Crawled == Crawling \/ (pc \in {"web_parse", "done"} /\ Len(sitemapUrls) = 0)

\* downloadPagesSequentially is running or has returned `pages`
Downloaded == Len(sitemapUrls) > 0

\* C1: the list of fetched pages never has more entries than the page limit,
\* on the sitemap path (start URL prepended or not) and on the crawl path.
C1_PagesWithinLimit == Len(pages) <= limit

\* C1 witness: the sitemap gave `limit` URLs without the start URL, the start
\* URL was prepended, and the download returned a full list of pages.
C1_Witness ==
  /\ pc = "web_parse"
  /\ limit >= 2
  /\ Len(sitemapUrls) = limit
  /\ ~Includes(sitemapUrls, normalizedUrl)
  /\ Len(pages) = limit

\* C2: in a crawl no URL appears twice in the fetched-page list.
C2_NoDuplicatePages ==
  Crawled => \A j, k \in 1..Len(pages) : pages[j].url = pages[k].url => j = k

\* C2 witness: two pages are fetched and a URL that was queued by both (or
\* that links back) is skipped at the head of the queue as already seen.
C2_Witness ==
  /\ pc = "crawl_loop"
  /\ Len(pages) >= 2
  /\ Len(pages) < limit
  /\ Len(queue) > 0
  /\ Head(queue) \in seen

\* C3: in a crawl every fetched URL and every queued URL has the start URL's hostname.
C3_SameHost ==
  Crawled => /\ \A j \in 1..Len(pages) : pages[j].url.host = normalizedUrl.host
             /\ \A j \in 1..Len(queue) : queue[j].host = normalizedUrl.host

\* C3 witness: a page was fetched and its links were queued, one of them an
\* absolute link of the other scheme.
C3_Witness ==
  /\ Crawling
  /\ Len(pages) >= 1
  /\ \E j \in 1..Len(queue) : queue[j].scheme # normalizedUrl.scheme

\* C4 as stated: for every limit >= 0 the queue length plus the number of
\* fetched pages never exceeds 2 * limit.
C4_Original == Crawling => Len(queue) + Len(pages) <= 2 * limit

\* C4 amended: for every limit >= 1 the queue length plus the number of
\* fetched pages never exceeds 2 * limit; with limit 0 the queue holds
\* the start URL only.
C4_QueueBound ==
  Crawling => IF limit >= 1 THEN Len(queue) + Len(pages) <= 2 * limit
              ELSE Len(pages) = 0 /\ queue = <<normalizedUrl>>

\* C4 witness: the bound is met with links in the queue.
C4_Witness ==
  /\ Crawling
  /\ limit >= 2
  /\ Len(pages) >= 1
  /\ Len(queue) + Len(pages) = 2 * limit

\* the number of entries of the store written for a website (by = "website")
\* or for an uploaded file (by = "document")
Stored(by) ==
  Cardinality({e \in 1..Len(store) : (store[e].source = FileSource) <=> (by = "document")})

\* C5: in a request with a file and a URL, both ingestions run whatever the
\* other returns, and the chunks written for the file stay in the store.
C5_StreamsIndependent ==
  (pc = "done" /\ uploadedFile /\ crawlTargetUrl # NoUrl)
    => /\ documentResult.returned
       /\ websiteResult.returned
       /\ documentResult.success => Stored("document") = documentResult.chunks

\* the list collectWebsitePages hands to the downloader, cut to the limit
Normalized ==
  IF Includes(sitemapUrls, normalizedUrl) THEN sitemapUrls
  ELSE Take(<<normalizedUrl>> \o sitemapUrls, limit)

IsPrefix(s, t) == Len(s) <= Len(t) /\ SubSeq(t, 1, Len(s)) = s

\* C6 as stated: when the sitemap resolver returned a non-empty list, the
\* downloader has attempted exactly its URLs, in its order.
C6_Original ==
  (pc = "web_parse" /\ Len(sitemapUrls) > 0) => attempts = sitemapUrls

\* C6 amended: the downloader attempts, in order and nothing else, the URLs of
\* the sitemap list when it contains the start URL, and otherwise the start
\* URL followed by the URLs of the list, cut to the first `limit` of them.
C6_AttemptsFollowList ==
  Downloaded => IF pc \in {"web_parse", "done"} THEN attempts = Normalized
                ELSE IsPrefix(attempts, Normalized)

\* C6 witness: the start URL was prepended to a list of two or more URLs, the
\* list was cut to the limit, and a fetch failed on the way.
C6_Witness ==
  /\ pc = "web_parse"
  /\ Len(sitemapUrls) >= 2
  /\ attempts[1] = normalizedUrl
  /\ attempts[2] = sitemapUrls[1]
  /\ Len(attempts) = Len(sitemapUrls)
  /\ Len(pages) < Len(attempts)

\* the location URLs of the entries of a sitemap, in document order
LocationUrls(doc) == SelectSeq(doc.urlset, LAMBDA loc : loc # NoUrl)

\* C7: for a fetched standard sitemap whose entries carry N >= 1 location
\* URLs, fetchSitemapUrls returns the first min(N, limit) of them in
\* document order.
C7_StandardSitemapUrls ==
  [][(/\ pc = "sm_parse"
      /\ xml.parses
      /\ Len(xml.sitemapindex) = 0
      /\ Len(LocationUrls(xml)) >= 1)
     => (/\ pc' \in {"dl_loop", "crawl_loop"}
         /\ sitemapUrls' = Take(LocationUrls(xml), limit))]_vars

Enough == {j \in 1..Len(pages) : pages[j].bodyLen >= MIN_WEBSITE_LENGTH}

\* C8: the documents handed to the splitter are exactly the pages whose body
\* text has at least MIN_WEBSITE_LENGTH characters, pagesIndexed is their
\* number, and a successful ingestion stored their chunks and no others.
C8_LengthFilter ==
  (pc = "done" /\ websiteResult.returned /\ Len(pages) > 0)
    => /\ Len(parsedDocuments) = Cardinality(Enough)
       /\ \A d \in 1..Len(parsedDocuments) :
            \E j \in Enough : /\ parsedDocuments[d].source = pages[j].url
                               /\ parsedDocuments[d].len = pages[j].bodyLen
       /\ \A j \in Enough : \E d \in 1..Len(parsedDocuments) :
            parsedDocuments[d].source = pages[j].url
       /\ websiteResult.success =>
            /\ websiteResult.pagesIndexed = Cardinality(Enough)
            /\ websiteResult.pagesProcessed = Len(pages)
            /\ Stored("website") = Cardinality(Enough)

\* C8 witness: an ingestion succeeded with a page of exactly
\* MIN_WEBSITE_LENGTH characters indexed and a shorter page left out.
C8_Witness ==
  /\ pc = "done"
  /\ websiteResult.success
  /\ \E j \in 1..Len(pages) : pages[j].bodyLen = MIN_WEBSITE_LENGTH
  /\ \E j \in 1..Len(pages) : pages[j].bodyLen < MIN_WEBSITE_LENGTH

EmptyResultErrors ==
  { "No crawlable pages found for the provided website.",
    "Scraped pages did not contain enough content to ingest." }

\* C9: when no page was fetched or no fetched page has enough text,
\* ingestWebsite returns success=false with one of its two messages, and
\* neither calls the embedding/store writer nor changes the store.
C9_EmptyResultFails ==
  [][(pc = "web_parse" /\ Enough = {})
     => (/\ pc' = "done"
         /\ websiteResult'.returned
         /\ ~websiteResult'.success
         /\ websiteResult'.error \in EmptyResultErrors
         /\ response' = 500
         /\ store' = store
         /\ writes' = writes)]_vars

\* C9 witness: pages were fetched, none long enough, after the uploaded file
\* of the same request had been stored.
C9_Witness ==
  /\ pc = "done"
  /\ Len(pages) >= 1
  /\ Len(store) >= 1
  /\ websiteResult.error = "Scraped pages did not contain enough content to ingest."

ResultOf(by) == IF by = "document" THEN documentResult ELSE websiteResult

\* C10: a result with success=true implies that the write of its batch
\* resolved and stored every chunk; a rejected write gives success=false
\* with the error message.
C10_SuccessOnlyAfterWrite ==
  /\ \A by \in {"document", "website"} :
       ResultOf(by).success =>
         \E w \in 1..Len(writes) : /\ writes[w].by = by
                                    /\ writes[w].ok
                                    /\ Stored(by) = writes[w].total
                                    /\ ResultOf(by).chunks = writes[w].total
  /\ \A w \in 1..Len(writes) :
       ~writes[w].ok => /\ ResultOf(writes[w].by).returned
                        /\ ~ResultOf(writes[w].by).success
                        /\ ResultOf(writes[w].by).error = "store"

\* C10 witness: the write of a website batch was rejected after part of the
\* batch had been stored.
C10_Witness ==
  /\ pc = "done"
  /\ \E w \in 1..Len(writes) : writes[w].by = "website" /\ ~writes[w].ok
  /\ Stored("website") >= 1

(* ---------------------- claims on deriveNamespace ---------------------- *)
\* t is s without a run of whitespace at its start and at its end
IsTrimOf(t, s) ==
  /\ Len(t) > 0
  /\ t[1] \notin Spaces
  /\ t[Len(t)] \notin Spaces
  /\ \E a \in 0..Len(s) :
       /\ a + Len(t) <= Len(s)
       /\ SubSeq(s, a + 1, a + Len(t)) = t
       /\ \A k \in 1..a : s[k] \in Spaces
       /\ \A k \in (a + Len(t) + 1)..Len(s) : s[k] \in Spaces

NonBlank(s) == \E k \in 1..Len(s) : s[k] \notin Spaces

\* C11 as stated: a namespace that is non-blank after trimming is returned
\* unchanged, character for character, whatever the organisation is.
C11_Original ==
  (pc = "derived" /\ NonBlank(bodyNamespace)) => targetNamespace = bodyNamespace

\* C11 amended: a namespace that is non-blank after trimming is returned
\* without its leading and trailing whitespace and otherwise unchanged,
\* character for character, whatever the organisation is.
C11_TrimmedNamespaceWins ==
  (pc = "derived" /\ NonBlank(bodyNamespace))
    => /\ IsTrimOf(targetNamespace, bodyNamespace)
       /\ \A organisation \in NsStrings :
            deriveNamespace(bodyNamespace, organisation) = targetNamespace

\* C11 witness: a namespace with a leading blank and an upper-case letter is
\* resolved next to an organisation that has a slug of its own.
C11_Witness ==
  /\ pc = "derived"
  /\ Len(bodyNamespace) >= 2
  /\ bodyNamespace[1] \in Spaces
  /\ targetNamespace = <<"A">>
  /\ bodyOrganisation = <<"a", "1">>

\* s is a slug: characters of [a-z0-9-] only, no hyphen first or last, no two
\* hyphens in a row
IsSlug(s) ==
  /\ Len(s) > 0
  /\ \A k \in 1..Len(s) : s[k] \in SlugChars \cup {"-"}
  /\ s[1] # "-"
  /\ s[Len(s)] # "-"
  /\ \A k \in 1..(Len(s) - 1) : ~(s[k] = "-" /\ s[k + 1] = "-")

HasSlugChar(s) == \E k \in 1..Len(s) : toLowerCase(s)[k] \in SlugChars

\* s lower-cased spells 'default' between characters outside [a-z0-9]
SpellsDefault(s) ==
  \E a \in 0..Len(s) :
    /\ a + Len(Default) <= Len(s)
    /\ SubSeq(toLowerCase(s), a + 1, a + Len(Default)) = Default
    /\ \A k \in (1..a) \cup ((a + Len(Default) + 1)..Len(s)) : toLowerCase(s)[k] \notin SlugChars

\* C12 as stated: with a blank namespace the result is non-empty and is
\* 'default' or a slug, and it is 'default' exactly when the organisation is
\* blank or has no [a-z0-9] character after lower-casing.
C12_Original ==
  (pc = "derived" /\ ~NonBlank(bodyNamespace))
    => /\ targetNamespace = Default \/ IsSlug(targetNamespace)
       /\ targetNamespace = Default
            <=> (~NonBlank(bodyOrganisation) \/ ~HasSlugChar(bodyOrganisation))

\* C12 amended: with a blank namespace the result is non-empty and is
\* 'default' or a slug, and it is 'default' exactly when the organisation is
\* blank, has no [a-z0-9] character after lower-casing, or has 'default' as
\* its own slug.
C12_SlugOrDefault ==
  (pc = "derived" /\ ~NonBlank(bodyNamespace))
    => /\ targetNamespace = Default \/ IsSlug(targetNamespace)
       /\ targetNamespace = Default
            <=> \/ ~NonBlank(bodyOrganisation)
                \/ ~HasSlugChar(bodyOrganisation)
                \/ SpellsDefault(bodyOrganisation)

\* C12 witness: an organisation with blanks around it, upper case and runs of
\* punctuation resolves to a slug with one hyphen inside.
C12_Witness ==
  /\ pc = "derived"
  /\ ~NonBlank(bodyNamespace)
  /\ bodyOrganisation = <<" ", "A", "!", "-", "1", "!", " ">>
  /\ targetNamespace = <<"a", "-", "1">>

(* -------------- claims on the sitemap path and the downloader ---------- *)
SitemapPcs == {"sm_loop", "sm_fetch", "sm_parse", "sm_nested_loop", "sm_nested_fetch"}
DownloadPcs == {"dl_loop", "dl_fetch", "dl_delay"}
CrawlPcs == {"crawl_loop", "crawl_fetch", "crawl_delay"}

\* a step of fetchSitemapUrls that keeps an error inside it
SitemapStepContained ==
  /\ pc \in SitemapPcs
       => /\ pc' \in SitemapPcs \cup {"dl_loop", "crawl_loop"}
          /\ websiteResult' = websiteResult
          /\ response' = response
  /\ (pc = "sm_fetch" /\ pc' # "sm_parse") => (pc' = "sm_loop" /\ cand' = cand + 1)
  /\ (pc = "sm_parse" /\ ~xml.parses) => (pc' = "sm_loop" /\ cand' = cand + 1)
  /\ pc = "sm_nested_fetch"
       => /\ pc' = "sm_nested_loop"
          /\ nestedSitemapUrls' = Tail(nestedSitemapUrls)
          /\ IsPrefix(allUrls, allUrls')
  /\ (pc = "sm_loop" /\ cand > Len(sitemapPaths))
       => (pc' = "crawl_loop" /\ sitemapUrls' = <<>>)

\* C13: no error leaves fetchSitemapUrls: a failed fetch or an unparsable body
\* at a candidate path moves it to the next candidate, a failed or unparsable
\* nested sitemap to the next nested sitemap, and after the last candidate it
\* returns the empty list to collectWebsitePages.
C13_SitemapNeverThrows == [][SitemapStepContained]_vars

\* C13 witness: two candidates failed and the third, a sitemap index, had no
\* nested sitemap that gave a URL.
C13_Witness ==
  /\ pc = "sm_nested_loop"
  /\ cand = Len(sitemapPaths)
  /\ Len(nestedSitemapUrls) = 0
  /\ Len(allUrls) = 0

\* fetchSitemapUrls is about to return a sitemap's URLs, cut to the limit
Yielded ==
  \/ /\ pc = "sm_parse"
     /\ xml.parses
     /\ ~xml.mentionsIndex
     /\ Len(extractUrlsFromSitemap(xml, xml.raw)) > 0
  \/ /\ pc = "sm_nested_loop"
     /\ Len(nestedSitemapUrls) = 0
     /\ Len(allUrls) > 0

\* what both forms of C14 share: the crawl is started exactly when
\* fetchSitemapUrls returned the empty list and the downloader exactly when
\* it returned URLs, neither is started after the other, and the one that
\* was not started has done nothing
OneEngine ==
  /\ (pc \in SitemapPcs /\ pc' \notin SitemapPcs)
       => /\ pc' = "crawl_loop" <=> Len(sitemapUrls') = 0
          /\ pc' = "dl_loop" <=> Len(sitemapUrls') > 0
  /\ pc' \in CrawlPcs => (pc \in CrawlPcs \cup SitemapPcs /\ urlsToFetch' = <<>>)
  /\ pc' \in DownloadPcs => (pc \in DownloadPcs \cup SitemapPcs /\ queue' = <<>> /\ seen' = {})
  /\ pc \in DownloadPcs \cup CrawlPcs => sitemapUrls' = sitemapUrls

Outcomes == SelectSeq(log, LAMBDA e : e # "delay")

\* the URLs whose fetch succeeded, in the order of the attempts
SucceededUrls ==
  LET done == [k \in 1..Len(Outcomes) |-> [url |-> attempts[k], ok |-> Outcomes[k] = "ok"]]
      kept == SelectSeq(done, LAMBDA a : a.ok)
  IN [k \in 1..Len(kept) |-> kept[k].url]

\* the list collectWebsitePages hands to downloadPagesSequentially
DownloadInput ==
  IF Includes(sitemapUrls, normalizedUrl) THEN sitemapUrls ELSE <<normalizedUrl>> \o sitemapUrls

\* C15: downloadPagesSequentially attempts each of the first `limit` URLs of
\* its input once, in order, whatever failed before, and the pages it returns
\* are those of the URLs whose fetch succeeded, in input order.
C15_DownloadedSubsequence ==
  Downloaded
    => /\ urlsToFetch = Take(DownloadInput, limit)
       /\ IsPrefix(attempts, urlsToFetch)
       /\ pc \in {"web_parse", "done"} => attempts = urlsToFetch
       /\ Len(Outcomes) = Len(attempts) - (IF pc = "dl_fetch" THEN 1 ELSE 0)
       /\ [k \in 1..Len(pages) |-> pages[k].url] = SucceededUrls

\* C15 witness: the first fetch failed, the second succeeded, and the input
\* was longer than the limit.
C15_Witness ==
  /\ pc = "web_parse"
  /\ Len(DownloadInput) > limit
  /\ Outcomes = <<"fail", "ok">>
  /\ Len(pages) = 1

(* -------------------------- claims on the crawl ----------------------- *)
NoDuplicates(s) == \A j, k \in 1..Len(s) : s[j] = s[k] => j = k

\* C16: whatever page the fetch returns, extractLinks gives at most
\* MAX_LINKS_PER_PAGE links, no two the same, each with scheme http or https
\* and the start URL's hostname; every URL of the crawl queue passes both tests.
C16_LinksFiltered ==
  Crawled
    => /\ pc = "crawl_fetch"
            => \A html \in Htmls :
                 LET links == extractLinks(html.hrefs, current, baseHost)
                 IN /\ Len(links) <= MAX_LINKS_PER_PAGE
                    /\ NoDuplicates(links)
                    /\ \A k \in 1..Len(links) : IsHttp(links[k]) /\ links[k].host = baseHost
       /\ \A j \in 1..Len(queue) : IsHttp(queue[j]) /\ queue[j].host = baseHost

\* C16 witness: one page gave MAX_LINKS_PER_PAGE links that were all queued,
\* some with the other http scheme.
C16_Witness ==
  /\ pc = "crawl_delay"
  /\ Len(pages) = 1
  /\ Len(queue) = MAX_LINKS_PER_PAGE
  /\ \E j \in 1..Len(queue) : queue[j].scheme = "http"
  /\ \E j \in 1..Len(queue) : queue[j].scheme = "https"

\* C18: when every fetch and delay completes, crawlWebsite returns, and when
\* it returns the number of fetched pages is the limit or the queue is empty.
C18_CrawlTerminates ==
  /\ <>(pc = "web_parse")
  /\ [](pc = "web_parse" => (Len(pages) = limit \/ Len(queue) = 0))

\* C18 witness: the crawl returned with fewer pages than the limit, its
\* queue empty, after fetches that failed and URLs that were skipped.
C18_Witness ==
  /\ pc = "web_parse"
  /\ Len(pages) >= 1
  /\ Len(pages) < limit
  /\ Len(queue) = 0
  /\ Len(attempts) >= 3
  /\ \E k \in 1..Len(log) : log[k] = "fail"

\* a step of the crawl that requests no URL a second time and goes on after a failure
RequestedOnce ==
  Crawling
    => /\ NoDuplicates(attempts')
       /\ (pc = "crawl_fetch" /\ pages' = pages)
            => /\ pc' = "crawl_loop"
               /\ queue' = queue
               /\ current \in seen'

\* C19: in one crawl no URL is requested twice, a URL whose fetch failed
\* included, and after a failed fetch the loop takes the next queued URL.
C19_RequestedAtMostOnce == [][RequestedOnce]_vars

\* C19 witness: a URL that two pages had queued failed at its fetch and is at
\* the head of the queue once more, to be skipped.
C19_Witness ==
  /\ pc = "crawl_loop"
  /\ Len(pages) < limit
  /\ Len(queue) > 0
  /\ \E k \in 1..Len(Outcomes) : attempts[k] = Head(queue) /\ Outcomes[k] = "fail"

\* C20: in a crawl a delay is waited between any two consecutive fetches,
\* whether the earlier one succeeded or failed.
C20_DelayAfterEveryFetch ==
  Crawled => \A k \in 1..(Len(log) - 1) : log[k] # "delay" => log[k + 1] = "delay"

(* ------------- claims on delays, requests in flight, order ------------- *)
\* C21: in the downloader a delay is waited between any two consecutive
\* requests, also after a request that failed, and none after the last one.
C21_DelayBetweenRequests ==
  Downloaded
    => /\ \A k \in 1..(Len(log) - 1) : log[k] # "delay" => log[k + 1] = "delay"
       /\ (pc \in {"web_parse", "done"} /\ Len(log) > 0) => log[Len(log)] # "delay"

\* C22: at most one network request of an ingestion request is in flight,
\* and one is in flight exactly while the request waits for a sitemap, a
\* nested sitemap or a page.
C22_OneInFlight ==
  /\ inFlight <= 1
  /\ inFlight = 1 <=> pc \in FetchPcs

\* C22 witness: a sitemap index named two nested sitemaps and the first of
\* them is being fetched.
C22_Witness ==
  /\ pc = "sm_nested_fetch"
  /\ Len(nestedSitemapUrls) >= 2
  /\ inFlight = 1

SameButFragment(u, v) == u.scheme = v.scheme /\ u.host = v.host /\ u.path = v.path

\* C24: in a crawl no URL of the queue or of the seen-set carries a
\* fragment, and no two fetched pages have URLs that differ only in their
\* fragment, whatever the start URL is.
C24_NoFragments ==
  Crawled
    => /\ \A j \in 1..Len(queue) : ~queue[j].frag
       /\ \A u \in seen : ~u.frag
       /\ \A j, k \in 1..Len(pages) : SameButFragment(pages[j].url, pages[k].url) => j = k

\* C25: the crawl requests URLs in the order of their first enqueue, the
\* start URL first, and the page list is the part of that order whose
\* fetch succeeded, in that order.
C25_FetchOrderIsEnqueueOrder ==
  Crawled
    => /\ IsPrefix(attempts, SetOrder(enqueued))
       /\ enqueued[1] = normalizedUrl
       /\ [k \in 1..Len(pages) |-> pages[k].url] = SucceededUrls

\* C25 witness: the crawl returned two pages or more after a fetch that
\* failed between them, with a URL that had been enqueued twice.
C25_Witness ==
  /\ pc = "web_parse"
  /\ Len(pages) >= 2
  /\ \E k \in 2..(Len(Outcomes) - 1) : Outcomes[k] = "fail"
  /\ Len(SetOrder(enqueued)) < Len(enqueued)

\* a step of a request that leaves its namespace alone once derived and
\* writes under it
NamespaceKept ==
  /\ pc = "idle" => /\ targetNamespace' = deriveNamespace(bodyNamespace', bodyOrganisation')
                    /\ store' = store
  /\ pc # "idle" => targetNamespace' = targetNamespace
  /\ \A e \in (Len(store) + 1)..Len(store') : store'[e].namespace = targetNamespace

\* C26: a request derives its namespace once, before it ingests anything,
\* and every entry it writes, for the file and for the website, carries
\* that namespace.
C26_OneNamespace == [][NamespaceKept]_vars

\* C26 witness: a request with an explicit namespace wrote its file and a
\* page of its website.
C26_Witness ==
  /\ pc = "done"
  /\ targetNamespace = <<"n">>
  /\ Stored("document") >= 1
  /\ Stored("website") >= 1

\* the list request r gets when it runs alone against the site
Alone(r) == crawlWebsite(reqs[r].startUrl, <<reqs[r].startUrl>>, {}, <<>>)

\* C23: two crawls interleaved in one process do not disturb each other:
\* at every moment the pages a request has collected are the first pages it
\* collects when run alone against the same site, and the list it returns
\* is the list it returns when run alone.
C23_RequestsIsolated ==
  \A r \in Requests :
    /\ IsPrefix(reqs[r].pages, Alone(r))
    /\ reqs[r].pc = "returned" => reqs[r].pages = Alone(r)

\* C23 witness: one request has returned two pages while the other, which
\* has visited some of the same URLs, waits for a fetch with a page collected.
C23_Witness ==
  \E r, q \in Requests :
    /\ r # q
    /\ reqs[r].pc = "returned"
    /\ Len(reqs[r].pages) >= 2
    /\ reqs[q].pc = "crawl_fetch"
    /\ Len(reqs[q].pages) >= 1
    /\ reqs[r].seen \cap reqs[q].seen # {}

====
